---- MODULE Spec2Model ----
(***************************************************************************)
(* A model of the Contact client (althea-net/contact): the validator-set   *)
(* normalizer and the wire adapters (types.rs), the strict address filter, *)
(* the checkpoint encoding and the mutating operations with their          *)
(* deadline-bounded retry loop (client/send.rs), the chain status query    *)
(* and the account query (client/get.rs) and the request-id counter        *)
(* (jsonrpc/client.rs).                                                    *)
(*                                                                         *)
(* The specifications that share the module:                               *)
(*   Spec        one mutating operation, from the call to its return,      *)
(*               with a wall clock that advances between any two steps;    *)
(*   SpecNorm    a raw valset taken from the wire, normalized by convert   *)
(*               and handed to filter_empty_addresses;                     *)
(*   SpecWire    one response body, decoded by the derived deserializers,  *)
(*               a valset converted and serialized again;                  *)
(*   SpecEnc     the checkpoints successive send_valset_confirm calls      *)
(*               sign through one client;                                  *)
(*   SpecStatus  one get_chain_status against a node that goes on          *)
(*               between the requests;                                     *)
(*   SpecIds     tasks calling request_method through clones of one        *)
(*               Contact, step by step through next_id;                    *)
(*   SpecRetry   retry_on_block alone, entered with a transaction of any   *)
(*               send mode, under weak fairness;                           *)
(*   SpecAccount one get_account_info against a node;                      *)
(*   SpecPair    two mutating operations on one account, interleaved.      *)
(***************************************************************************)
EXTENDS Integers, Sequences, FiniteSets, TLC

\* ------------------------------------------------------------------ bounds

\* Largest caller timeout (Contact.timeout), in clock ticks.
MaxTimeout == 2
\* The wall clock is followed up to this many ticks after the call.
MaxTime == 3
\* Send attempts followed per submission (the loop itself has no cap).
MaxAttempts == 3
\* Validators per valset taken from the wire.
MaxVals == 2
\* Validators per valset handed to send_valset_confirm.
MaxOpVals == 1
\* Hex digits of an address on the wire (40 in clarity, scaled down).
AddrHexLen == 2
\* Validators per valset handed to the checkpoint encoding.
MaxEncVals == 2
\* Checkpoints built one after the other through one client.
MaxCalls == 2
\* Largest height of a last commit the node reports.
MaxHeight == 4
\* Width of the unsigned block height (64 in ChainStatus, scaled down).
HeightBits == 3
\* Tasks that call request_method through clones of one Contact.
NumTasks == 3
\* Request ids followed per client.
MaxIds == 3
\* Fields in the account record a node returns.
MaxRecordLen == 2

\* ------------------------------------------------------- options, results

None == [tag |-> "None"]
Some(v) == [tag |-> "Some", val |-> v]
IsSome(o) == o.tag = "Some"

Ok(v) == [tag |-> "Ok", val |-> v]
Err(e) == [tag |-> "Err", err |-> e]
IsOk(r) == r.tag = "Ok"
IsErr(r) == r.tag = "Err"

\* JsonRpcError, as send.rs uses it.
FailedToSend(cause) == [kind |-> "FailedToSend", detail |-> cause]
BadResponse == [kind |-> "BadResponse", detail |-> "decode"]
ResponseError == [kind |-> "ResponseError", detail |-> "rejected"]
BadInput(msg) == [kind |-> "BadInput", detail |-> msg]

\* SendRequestError::Connect(ConnectError::Disconnected)
Disconnected == FailedToSend("Connect(Disconnected)")
\* SendRequestError::Timeout
TimedOut == FailedToSend("Timeout")

\* ------------------------------------------------- wire strings, addresses

\* A wire string is a sequence of characters.
HexLower == {"0", "1", "a", "b", "c", "d"}
HexUpper == {"A", "B", "C", "D"}
HexChars == HexLower \cup HexUpper

LowerHex(c) ==
    CASE c = "A" -> "a"
      [] c = "B" -> "b"
      [] c = "C" -> "c"
      [] c = "D" -> "d"
      [] OTHER -> c

StripPrefix(s) ==
    IF Len(s) >= 2 /\ s[1] = "0" /\ s[2] = "x" THEN SubSeq(s, 3, Len(s)) ELSE s

\* str::parse::<EthAddress>(): an optional 0x prefix, then exactly the
\* address's hex digits in either case; the value is the decoded bytes
\* (here: the digits in lower case).
ParseEthAddress(s) ==
    LET h == StripPrefix(s) IN
    IF Len(h) = AddrHexLen /\ \A i \in 1..Len(h) : h[i] \in HexChars
    THEN Ok([i \in 1..Len(h) |-> LowerHex(h[i])])
    ELSE Err("InvalidAddress")

\* The address strings a node may put on the wire.
WireAddrs ==
    { <<>>,
      <<"0", "x">> \o [i \in 1..AddrHexLen |-> "a"],
      [i \in 1..AddrHexLen |-> "A"],
      <<"0", "x">> \o [i \in 1..AddrHexLen |-> "b"],
      <<"z">> \o [i \in 1..(AddrHexLen - 1) |-> "a"],
      <<"a">> }

AddrA == [i \in 1..AddrHexLen |-> "a"]
AddrB == [i \in 1..AddrHexLen |-> "b"]

\* All sequences over S of length 0..n.
SeqUpTo(S, n) == UNION {[1..k -> S] : k \in 0..n}

\* ----------------------------------------------------- valset normalizer

\* The loop of ValsetResponseUnparsed::convert over eth_addresses.
RECURSIVE ConvertDropAddrs(_)
ConvertDropAddrs(addrs) ==
    IF addrs = <<>> THEN <<>>
    ELSE LET maybe_addr == Head(addrs)
             rest == ConvertDropAddrs(Tail(addrs))
         IN IF maybe_addr = <<>> THEN rest
            ELSE LET p == ParseEthAddress(maybe_addr)
                 IN IF IsOk(p) THEN <<Some(p.val)>> \o rest
                    ELSE <<None>> \o rest

RECURSIVE ConvertAddrs(_)
ConvertAddrs(addrs) ==
    IF addrs = <<>> THEN <<>>
    ELSE LET maybe_addr == Head(addrs)
             rest == ConvertAddrs(Tail(addrs))
         IN IF maybe_addr = <<>> THEN <<None>> \o rest
            ELSE LET p == ParseEthAddress(maybe_addr)
                 IN IF IsOk(p) THEN <<Some(p.val)>> \o rest
                    ELSE <<None>> \o rest

\* ValsetResponseUnparsed::convert
convert(unparsed) ==
    [nonce |-> unparsed.nonce,
     powers |-> unparsed.powers,
     eth_addresses |-> ConvertAddrs(unparsed.eth_addresses)]

\* filter_empty_addresses, with a None skipped instead of rejected.
RECURSIVE FilterSkippingNone(_)
FilterSkippingNone(input) ==
    IF input = <<>> THEN Ok(<<>>)
    ELSE LET rest == FilterSkippingNone(Tail(input))
         IN IF IsSome(Head(input))
            THEN Ok(<<Head(input).val>> \o rest.val)
            ELSE rest

\* filter_empty_addresses: the first None ends the loop with BadInput.
RECURSIVE filter_empty_addresses(_)
filter_empty_addresses(input) ==
    IF input = <<>> THEN Ok(<<>>)
    ELSE IF IsSome(Head(input))
         THEN LET rest == filter_empty_addresses(Tail(input))
              IN IF IsOk(rest) THEN Ok(<<Head(input).val>> \o rest.val)
                 ELSE rest
         ELSE Err(BadInput("All Eth Addresses must be set"))

\* ------------------------------------------------- wire values, adapters

\* A JSON value of a response body: a string of characters, a number or
\* null; Absent stands for a field the body does not have.
JStr(s) == [json |-> "string", chars |-> s]
JNum(n) == [json |-> "number", val |-> n]
JNull == [json |-> "null"]
Absent == [json |-> "absent"]

DecDigits == <<"0", "1", "2", "3", "4", "5", "6", "7", "8", "9">>
DecChars == {DecDigits[i] : i \in 1..Len(DecDigits)}
DigitVal(c) == (CHOOSE i \in 1..Len(DecDigits) : DecDigits[i] = c) - 1

RECURSIVE DecVal(_)
DecVal(s) ==
    IF s = <<>> THEN 0
    ELSE DecVal(SubSeq(s, 1, Len(s) - 1)) * Len(DecDigits) + DigitVal(s[Len(s)])

\* T::from_str for the integer types (u128, Uint256): one or more decimal
\* digits, nothing else.
FromStrUint(s) ==
    IF Len(s) >= 1 /\ \A i \in 1..Len(s) : s[i] \in DecChars
    THEN Ok(DecVal(s))
    ELSE Err("ParseIntError")

\* The decimal digits of an integer, least significant first.
RECURSIVE ToDecStringReversed(_)
ToDecStringReversed(n) ==
    IF n < Len(DecDigits) THEN <<DecDigits[n + 1]>>
    ELSE <<DecDigits[(n % Len(DecDigits)) + 1]>>
             \o ToDecStringReversed(n \div Len(DecDigits))

\* The decimal string an integer is written as (Uint256's Serialize).
RECURSIVE ToDecString(_)
ToDecString(n) ==
    IF n < Len(DecDigits) THEN <<DecDigits[n + 1]>>
    ELSE ToDecString(n \div Len(DecDigits)) \o <<DecDigits[(n % Len(DecDigits)) + 1]>>

\* String::deserialize: only a JSON string is a String.
DeserializeString(v) ==
    IF v.json = "string" THEN Ok(v.chars) ELSE Err("invalid type")

\* parse_val with the failure replaced by a default value.
ParseValOrDefault(v) ==
    LET s == DeserializeString(v) IN
    IF IsErr(s) THEN Ok(0)
    ELSE LET p == FromStrUint(s.val) IN IF IsOk(p) THEN p ELSE Ok(0)

\* parse_val: the field must be a string and the string must parse.
parse_val(v) ==
    LET s == DeserializeString(v) IN
    IF IsErr(s) THEN s ELSE FromStrUint(s.val)

\* parse_val_option: the field must be a string; a string that does not
\* parse is None.
parse_val_option(v) ==
    LET s == DeserializeString(v) IN
    IF IsErr(s) THEN s
    ELSE LET p == FromStrUint(s.val) IN
         IF IsOk(p) THEN Ok(Some(p.val)) ELSE Ok(None)

\* #[serde(default)] on an Option field: an absent field is None.
WithDefault(v) == IF v.json = "absent" THEN Ok(None) ELSE parse_val_option(v)

\* Uint256's own Deserialize (no adapter): a string that must parse.
DeserializeUint256(v) ==
    LET s == DeserializeString(v) IN
    IF IsErr(s) THEN s ELSE FromStrUint(s.val)

\* A plain u128 field (no adapter): a JSON number.
DeserializeU128(v) ==
    IF v.json = "number" THEN Ok(v.val) ELSE Err("invalid type")

\* Vec<Uint256>: every element must deserialize, the first failure fails
\* the vector.
RECURSIVE DeserializeVecUint256(_)
DeserializeVecUint256(vs) ==
    IF vs = <<>> THEN Ok(<<>>)
    ELSE LET h == DeserializeUint256(Head(vs)) IN
         IF IsErr(h) THEN h
         ELSE LET rest == DeserializeVecUint256(Tail(vs)) IN
              IF IsErr(rest) THEN rest ELSE Ok(<<h.val>> \o rest.val)

\* Vec<String>
RECURSIVE DeserializeVecString(_)
DeserializeVecString(vs) ==
    IF vs = <<>> THEN Ok(<<>>)
    ELSE LET h == DeserializeString(Head(vs)) IN
         IF IsErr(h) THEN h
         ELSE LET rest == DeserializeVecString(Tail(vs)) IN
              IF IsErr(rest) THEN rest ELSE Ok(<<h.val>> \o rest.val)

\* The derived Deserialize of ValsetResponseUnparsed.
DeserializeValsetResponseUnparsed(w) ==
    LET nonce == parse_val(w.Nonce)
        powers == DeserializeVecUint256(w.Powers)
        eth_addresses == DeserializeVecString(w.EthAddresses)
    IN IF IsErr(nonce) THEN nonce
       ELSE IF IsErr(powers) THEN powers
       ELSE IF IsErr(eth_addresses) THEN eth_addresses
       ELSE Ok([nonce |-> nonce.val,
                powers |-> powers.val,
                eth_addresses |-> eth_addresses.val])

\* The derived Deserialize of ValsetResponseUnparsedWrapper.
DeserializeValsetResponseUnparsedWrapper(w) ==
    LET height == parse_val(w.height)
        result == DeserializeValsetResponseUnparsed(w.result)
    IN IF IsErr(height) THEN height
       ELSE IF IsErr(result) THEN result
       ELSE Ok([height |-> height.val, result |-> result.val])

\* The derived Deserialize of CosmosAccountInfoWrapper (height and the two
\* numbers of the account).
DeserializeCosmosAccountInfoWrapper(w) ==
    LET height == parse_val(w.height)
        account_number == DeserializeU128(w.account_number)
        sequence == DeserializeU128(w.sequence)
    IN IF IsErr(height) THEN height
       ELSE IF IsErr(account_number) THEN account_number
       ELSE IF IsErr(sequence) THEN sequence
       ELSE Ok([height |-> height.val,
                account_number |-> account_number.val,
                sequence |-> sequence.val])

\* The derived Deserialize of TXSendResponse.
DeserializeTXSendResponse(w) ==
    LET gas_used == WithDefault(w.gas_used)
        gas_wanted == WithDefault(w.gas_wanted)
        height == parse_val(w.height)
        txhash == DeserializeString(w.txhash)
    IN IF IsErr(gas_used) THEN gas_used
       ELSE IF IsErr(gas_wanted) THEN gas_wanted
       ELSE IF IsErr(height) THEN height
       ELSE IF IsErr(txhash) THEN txhash
       ELSE Ok([gas_used |-> gas_used.val,
                gas_wanted |-> gas_wanted.val,
                height |-> height.val,
                txhash |-> txhash.val])

\* res.json(): the body decoded as the type the caller asked for.
DeserializeResponse(w) ==
    CASE w.kind = "valset" -> DeserializeValsetResponseUnparsedWrapper(w)
      [] w.kind = "account" -> DeserializeCosmosAccountInfoWrapper(w)
      [] w.kind = "txsend" -> DeserializeTXSendResponse(w)

\* ValsetResponseUnparsedWrapper::convert
convert_wrapper(unparsed) ==
    [height |-> unparsed.height, result |-> convert(unparsed.result)]

\* Option<EthAddress>'s Serialize: null, or the address as 0x and its
\* lower-case hex digits.
SerializeAddress(a) ==
    IF IsSome(a) THEN Some(<<"0", "x">> \o a.val) ELSE None

\* The derived Serialize of ValsetResponseWrapper.
SerializeValsetResponseWrapper(v) ==
    [height |-> JNum(v.height),
     result |->
        [nonce |-> JStr(ToDecString(v.result.nonce)),
         powers |-> [i \in 1..Len(v.result.powers) |->
                        JStr(ToDecString(v.result.powers[i]))],
         eth_addresses |-> [i \in 1..Len(v.result.eth_addresses) |->
                               SerializeAddress(v.result.eth_addresses[i])]]]

\* ------------------------------------------------------------------ state

VARIABLES
    \* ---- the normalizer pipeline (SpecNorm)
    npc,          \* "raw" | "converted" | "filtered" | "off"
    raw,          \* the ValsetResponseUnparsed taken from the wire
    normalized,   \* convert's ValsetResponse
    filtered,     \* filter_empty_addresses' result on normalized.eth_addresses
    \* ---- one mutating operation (Spec)
    pc,           \* the operation's position
    op,           \* which mutating operation was called
    args,         \* the caller's chain_id, account_number, sequence, valset
    timeout,      \* Contact.timeout
    now,          \* the wall clock (Instant::now())
    start,        \* retry_on_block's start
    time_left,    \* the timeout handed to the next request
    tx_info,      \* the resolved OptionalTXInfo
    tx,           \* the signed Transaction
    res,          \* retry_on_block's res / the operation's result
    sent,         \* the "txs" requests issued: payload, timeout, time
    outcomes,     \* what each finished request returned
    lookups,      \* account lookups issued to the chain
    lookup_res,   \* what the account lookup returned
    signCount,    \* calls of sign_std_msg
    spent,        \* time spent inside finished requests
    \* ---- one response body, decoded (SpecWire)
    wpc,          \* "wire" | "decoded" | "failed" | "converted" | "reserialized"
    wire,         \* the body as the node wrote it
    decoded,      \* what res.json() made of it
    converted,    \* the ValsetResponseWrapper convert returns
    reserialized, \* that wrapper, serialized again
    \* ---- checkpoints built through one client (SpecEnc)
    enc_valset,   \* the valset to confirm
    enc_calls,    \* each call's parameters and the message it signs
    enc_id,       \* the client's request-id counter
    \* ---- one get_chain_status against a live node (SpecStatus)
    spc,          \* get_chain_status's position
    node,         \* the node: whether it is syncing, its latest block
    syncing,      \* what get_syncing reported
    block,        \* what get_latest_block reported
    status,       \* get_chain_status's result
    \* ---- concurrent request_method calls on one HTTPClient (SpecIds)
    id_counter,   \* HTTPClient.id_counter's value
    id_lock,      \* the task that holds id_counter's mutex, 0 for none
    id_pc,        \* each task's position in request_method / next_id
    issued,       \* the ids of the requests built, in the order built
    \* ---- one get_account_info against a node (SpecAccount)
    apc,          \* get_account_info's position
    acct_node,    \* what the node answers for the address
    acct_reply,   \* the QueryAccountResponse received
    acct_result,  \* get_account_info's result
    acct_queries, \* account queries issued to the node
    \* ---- two mutating operations on one account (SpecPair)
    pair_pc,      \* each operation's position
    pair_args,    \* each operation's name and optional tx fields
    pair_seen,    \* the account record each operation's lookup returned
    pair_info,    \* each operation's resolved OptionalTXInfo
    pair_tx,      \* each operation's signed Transaction
    pair_sent,    \* the "txs" requests issued, in order: task and payload
    pair_res,     \* each operation's result
    chain_sequence \* the sequence the chain holds for the account

normVars == <<npc, raw, normalized, filtered>>
opVars == <<pc, op, args, timeout, now, start, time_left, tx_info, tx, res,
            sent, outcomes, lookups, lookup_res, signCount, spent>>
wireVars == <<wpc, wire, decoded, converted, reserialized>>
vars == <<npc, raw, normalized, filtered, pc, op, args, timeout, now, start,
          time_left, tx_info, tx, res, sent, outcomes, lookups, lookup_res,
          signCount, spent,
          wpc, wire, decoded, converted, reserialized,
          enc_valset, enc_calls, enc_id,
          spc, node, syncing, block, status,
          id_counter, id_lock, id_pc, issued,
          apc, acct_node, acct_reply, acct_result, acct_queries,
          pair_pc, pair_args, pair_seen, pair_info, pair_tx, pair_sent, pair_res, chain_sequence>>
idVars == <<id_counter, id_lock, id_pc, issued>>
encVars == <<enc_valset, enc_calls, enc_id>>
statusVars == <<spc, node, syncing, block, status>>
acctVars == <<apc, acct_node, acct_reply, acct_result, acct_queries>>
pairVars == <<pair_pc, pair_args, pair_seen, pair_info, pair_tx, pair_sent, pair_res, chain_sequence>>

\* Everything but the operation's variables, everything but the
\* normalizer's, everything but the decoder's.
notOpVars == <<normVars, wireVars, encVars, statusVars, idVars,
                acctVars, pairVars>>
notNormVars == <<opVars, wireVars, encVars, statusVars, idVars,
                acctVars, pairVars>>
notWireVars == <<opVars, normVars, encVars, statusVars, idVars,
                acctVars, pairVars>>
notEncVars == <<opVars, normVars, wireVars, statusVars, idVars,
                acctVars, pairVars>>
notStatusVars == <<opVars, normVars, wireVars, encVars, idVars,
                acctVars, pairVars>>
notIdVars == <<opVars, normVars, wireVars, encVars, statusVars,
                acctVars, pairVars>>
notAcctVars == <<opVars, normVars, wireVars, encVars, statusVars, idVars,
                pairVars>>
notPairVars == <<opVars, normVars, wireVars, encVars,
                 statusVars, idVars, acctVars>>

NoValset == [nonce |-> 0, powers |-> <<>>, eth_addresses |-> <<>>]
NoArgs == [chain_id |-> None, account_number |-> None, sequence |-> None,
           valset |-> NoValset]

\* The operation's variables while no operation runs.
OpOff ==
    /\ pc = "off" /\ op = "none" /\ args = NoArgs /\ timeout = 0
    /\ now = 0 /\ start = 0 /\ time_left = 0
    /\ tx_info = None /\ tx = None /\ res = None
    /\ sent = <<>> /\ outcomes = <<>>
    /\ lookups = 0 /\ lookup_res = None /\ signCount = 0 /\ spent = 0

\* The normalizer's variables while it does not run.
NormOff ==
    /\ npc = "off" /\ raw = NoValset /\ normalized = NoValset /\ filtered = None

\* The decoder's variables while it does not run.
WireOff ==
    /\ wpc = "off" /\ wire = Absent /\ decoded = None
    /\ converted = None /\ reserialized = None

\* The checkpoint variables while no checkpoint is built.
EncOff ==
    /\ enc_valset = NoValset /\ enc_calls = <<>> /\ enc_id = 0

\* The status variables while no status is asked for.
StatusOff ==
    /\ spc = "off" /\ node = None /\ syncing = None /\ block = None
    /\ status = None

\* The id variables while no task runs.
IdsOff ==
    /\ id_counter = 0 /\ id_lock = 0 /\ id_pc = <<>> /\ issued = <<>>

\* The account variables while no account is asked for.
AcctOff ==
    /\ apc = "off" /\ acct_node = None /\ acct_reply = None
    /\ acct_result = None /\ acct_queries = 0

\* The pair variables while no pair of operations runs.
PairOff ==
    /\ pair_pc = <<>> /\ pair_args = <<>> /\ pair_seen = <<>>
    /\ pair_info = <<>> /\ pair_tx = <<>> /\ pair_sent = <<>>
    /\ pair_res = <<>> /\ chain_sequence = 0

\* --------------------------------------------------- SpecNorm: the pipeline

Nonces == {1, 2}
Powers == {10, 20}

\* What deserializes into a ValsetResponseUnparsed: the node chooses every
\* field, the two lists independently.
RawValsets ==
    [nonce : Nonces,
     powers : SeqUpTo(Powers, MaxVals),
     eth_addresses : SeqUpTo(WireAddrs, MaxVals)]

InitNorm ==
    /\ npc = "raw"
    /\ raw \in RawValsets
    /\ normalized = NoValset
    /\ filtered = None
    /\ OpOff
    /\ WireOff
    /\ EncOff
    /\ StatusOff
    /\ IdsOff
    /\ AcctOff
    /\ PairOff

\* get_peggy_valset_request's Ok arm: val.convert()
Convert ==
    /\ npc = "raw"
    /\ normalized' = convert(raw)
    /\ npc' = "converted"
    /\ UNCHANGED <<raw, filtered>>
    /\ UNCHANGED notNormVars

\* send_valset_confirm's filter_empty_addresses(&valset.eth_addresses)
Filter ==
    /\ npc = "converted"
    /\ filtered' = filter_empty_addresses(normalized.eth_addresses)
    /\ npc' = "filtered"
    /\ UNCHANGED <<raw, normalized>>
    /\ UNCHANGED notNormVars

NextNorm == Convert \/ Filter

SpecNorm == InitNorm /\ [][NextNorm]_vars

\* ------------------------------------------ SpecWire: one response body

\* The strings a node may write where a number is expected.
WireNums == {JStr(<<"7">>), JStr(<<"0", "3">>), JStr(<<>>), JStr(<<"x", "1">>), JNum(7)}
WireHeights == {JStr(<<"7">>), JStr(<<"x">>), JNum(7)}
WirePowers == {JStr(<<"1", "0">>), JStr(<<"2", "0">>), JStr(<<"z">>)}
WireAddrStrings == {JStr(<<>>),
                    JStr(<<"0", "x">> \o [i \in 1..AddrHexLen |-> "a"]),
                    JStr([i \in 1..AddrHexLen |-> "B"]),
                    JStr(<<"z">>)}
WireGas == {Absent, JStr(<<"5">>), JStr(<<"x">>), JNull}

\* The bodies of the three answers that carry strictly parsed fields.
WireValsetResponses ==
    [kind : {"valset"},
     height : WireHeights,
     result : [Nonce : WireNums,
               Powers : SeqUpTo(WirePowers, MaxVals),
               EthAddresses : SeqUpTo(WireAddrStrings, MaxVals)]]
WireAccountResponses ==
    [kind : {"account"}, height : WireHeights,
     account_number : {JNum(1)}, sequence : {JNum(2)}]
WireTXSendResponses ==
    [kind : {"txsend"}, height : WireHeights,
     gas_used : WireGas, gas_wanted : WireGas, txhash : {JStr(<<"a", "b">>)}]
WireResponses ==
    WireValsetResponses \cup WireAccountResponses \cup WireTXSendResponses

InitWire ==
    /\ wpc = "wire"
    /\ wire \in WireResponses
    /\ decoded = None
    /\ converted = None
    /\ reserialized = None
    /\ OpOff
    /\ NormOff
    /\ EncOff
    /\ StatusOff
    /\ IdsOff
    /\ AcctOff
    /\ PairOff

\* request_method's res.json(): the body decoded into the response type,
\* a decode error returned as BadResponse.
Deserialize ==
    /\ wpc = "wire"
    /\ LET r == DeserializeResponse(wire) IN
       IF IsOk(r)
       THEN decoded' = r /\ wpc' = "decoded"
       ELSE decoded' = Err(BadResponse) /\ wpc' = "failed"
    /\ UNCHANGED <<wire, converted, reserialized>>
    /\ UNCHANGED notWireVars

\* get_peggy_valset_request's Ok arm: val.convert()
ConvertDecoded ==
    /\ wpc = "decoded"
    /\ wire.kind = "valset"
    /\ converted' = Some(convert_wrapper(decoded.val))
    /\ wpc' = "converted"
    /\ UNCHANGED <<wire, decoded, reserialized>>
    /\ UNCHANGED notWireVars

\* The returned ValsetResponseWrapper written out again.
Reserialize ==
    /\ wpc = "converted"
    /\ reserialized' = Some(SerializeValsetResponseWrapper(converted.val))
    /\ wpc' = "reserialized"
    /\ UNCHANGED <<wire, decoded, converted>>
    /\ UNCHANGED notWireVars

NextWire == Deserialize \/ ConvertDecoded \/ Reserialize

SpecWire == InitWire /\ [][NextWire]_vars

\* ------------------------------------------- Spec: one mutating operation

Ops == {"create_and_send_transaction", "update_peggy_eth_address",
        "send_valset_request", "send_valset_confirm"}

\* What the caller may pass for the three optional tx fields.
ChainIdArgs == {None, Some("caller-chain")}
AccountNumberArgs == {None, Some(5)}
SequenceArgs == {None, Some(9)}

\* The valsets a caller may hand to send_valset_confirm.
Valsets ==
    [nonce : Nonces,
     powers : SeqUpTo({10}, MaxOpVals),
     eth_addresses : SeqUpTo({None, Some(AddrA)}, MaxOpVals)]

\* The account record the chain holds for our address.
OnChain == [chain_id |-> "chain", account_number |-> 1, sequence |-> 2]

\* What an account lookup may come back with.
LookupResults == {Ok(OnChain), Err(Disconnected), Err(ResponseError)}

Init ==
    /\ pc = "idle"
    /\ op = "none"
    /\ args = NoArgs
    /\ timeout \in 0..MaxTimeout
    /\ now = 0 /\ start = 0 /\ time_left = 0
    /\ tx_info = None /\ tx = None /\ res = None
    /\ sent = <<>> /\ outcomes = <<>>
    /\ lookups = 0 /\ lookup_res = None /\ signCount = 0 /\ spent = 0
    /\ NormOff
    /\ WireOff
    /\ EncOff
    /\ StatusOff
    /\ IdsOff
    /\ AcctOff
    /\ PairOff

\* The caller invokes one of the four mutating operations.
Call(o, ci, an, sq, vs) ==
    /\ pc = "idle"
    /\ op' = o
    /\ args' = [chain_id |-> ci, account_number |-> an, sequence |-> sq,
                valset |-> vs]
    /\ pc' = "resolve"
    /\ UNCHANGED <<timeout, now, start, time_left, tx_info, tx, res, sent,
                   outcomes, lookups, signCount, spent>>
    /\ UNCHANGED lookup_res
    /\ UNCHANGED notOpVars

\* maybe_get_optional_tx_info: whether the chain has to be asked.
NeedsLookup(a) ==
    ~(IsSome(a.chain_id) /\ IsSome(a.account_number) /\ IsSome(a.sequence))

\* maybe_get_optional_tx_info: the caller's values, the gaps filled from
\* the account record.
FillTxInfo(a, account) ==
    [chain_id |-> IF IsSome(a.chain_id) THEN a.chain_id.val
                  ELSE account.chain_id,
     account_number |-> IF IsSome(a.account_number) THEN a.account_number.val
                        ELSE account.account_number,
     sequence |-> IF IsSome(a.sequence) THEN a.sequence.val
                  ELSE account.sequence]

\* maybe_get_optional_tx_info with all three supplied: no network call.
ResolveSupplied ==
    /\ pc = "resolve"
    /\ ~NeedsLookup(args)
    /\ tx_info' = Some(FillTxInfo(args, OnChain))
    /\ pc' = "build"
    /\ UNCHANGED <<op, args, timeout, now, start, time_left, tx, res, sent,
                   outcomes, lookups, signCount, spent>>
    /\ UNCHANGED lookup_res
    /\ UNCHANGED notOpVars

\* A lookup error returned as a decode error.
ErrorAsBadResponse(e) == BadResponse

\* The `?` after maybe_get_optional_tx_info(..).await: the error type is
\* the operation's own, From::from leaves the error as it is.
FromError(e) == e

\* StdSignMsg with the chain's sequence instead of the resolved one.
StdSignMsgChainSequence(info, msg) ==
    [chain_id |-> info.chain_id,
     account_number |-> info.account_number,
     sequence |-> OnChain.sequence,
     msgs |-> <<msg>>]

\* maybe_get_optional_tx_info with a gap: one account lookup, whose error
\* the `?` returns to the caller.
ResolveLookup(r) ==
    /\ pc = "resolve"
    /\ NeedsLookup(args)
    /\ lookups' = lookups + 1
    /\ lookup_res' = Some(r)
    /\ IF IsOk(r)
       THEN /\ tx_info' = Some(FillTxInfo(args, r.val))
            /\ pc' = "build"
            /\ res' = res
       ELSE /\ tx_info' = tx_info
            /\ pc' = "done"
            /\ res' = Err(FromError(r.err))
    /\ UNCHANGED <<op, args, timeout, now, start, time_left, tx, sent,
                   outcomes, signCount, spent>>
    /\ UNCHANGED notOpVars

PeggyId == "test"

\* The words of an ABI encoding: a fixed string (padded on the right), an
\* unsigned integer (big-endian, padded on the left), an address (padded
\* on the left).
FixedStringWord(s) == [kind |-> "string", str |-> s, num |-> 0, addr |-> <<>>]
UintWord(n) == [kind |-> "uint", str |-> "", num |-> n, addr |-> <<>>]
AddressWord(a) == [kind |-> "address", str |-> "", num |-> 0, addr |-> a]

\* A dynamic array in the tail: its length, then one word per element.
AddressArray(addresses) ==
    <<UintWord(Len(addresses))>>
        \o [i \in 1..Len(addresses) |-> AddressWord(addresses[i])]
UintArray(numbers) ==
    <<UintWord(Len(numbers))>>
        \o [i \in 1..Len(numbers) |-> UintWord(numbers[i])]

\* encode_tokens with the nonce field left at zero.
EncodeWithoutNonce(peggy_id, nonce, addresses, powers) ==
    LET head == <<FixedStringWord(peggy_id), FixedStringWord("checkpoint"),
                  UintWord(0)>>
        first == AddressArray(addresses)
        second == UintArray(powers)
    IN head \o <<UintWord(Len(head) + 2),
                 UintWord(Len(head) + 2 + Len(first))>>
            \o first \o second

\* encode_tokens with the two arrays in the other order.
EncodePowersFirst(peggy_id, nonce, addresses, powers) ==
    LET head == <<FixedStringWord(peggy_id), FixedStringWord("checkpoint"),
                  UintWord(nonce)>>
        first == UintArray(powers)
        second == AddressArray(addresses)
    IN head \o <<UintWord(Len(head) + 2),
                 UintWord(Len(head) + 2 + Len(first))>>
            \o first \o second

\* encode_tokens(&[peggy_id, "checkpoint", nonce, addresses, powers]): the
\* three static tokens in place and, for each array, its offset (counted
\* in words here), then the arrays themselves.
encode_tokens(peggy_id, nonce, addresses, powers) ==
    LET head == <<FixedStringWord(peggy_id), FixedStringWord("checkpoint"),
                  UintWord(nonce)>>
        first == AddressArray(addresses)
        second == UintArray(powers)
    IN head \o <<UintWord(Len(head) + 2),
                 UintWord(Len(head) + 2 + Len(first))>>
            \o first \o second

\* The valset's addresses, refused when the powers are not as many.
CheckedAddressesSameLength(valset) ==
    IF Len(valset.powers) # Len(valset.eth_addresses)
    THEN Err(BadInput("powers and eth_addresses differ in length"))
    ELSE filter_empty_addresses(valset.eth_addresses)

\* filter_empty_addresses(&valset.eth_addresses)?: the one check
\* send_valset_confirm makes on the valset before it encodes it.
CheckedAddresses(valset) == filter_empty_addresses(valset.eth_addresses)

\* eth_private_key.sign_ethereum_msg
sign_ethereum_msg(message) == [signer |-> "eth_key", over |-> message]

\* The Msg each operation puts into its StdSignMsg.
BuildMsg(o, a) ==
    CASE o = "create_and_send_transaction" ->
             [type |-> "SendMsg", nonce |-> 0, eth_signature |-> None]
      [] o = "update_peggy_eth_address" ->
             [type |-> "SetEthAddressMsg", nonce |-> 0,
              eth_signature |-> Some(sign_ethereum_msg(<<"our_address">>))]
      [] o = "send_valset_request" ->
             [type |-> "ValsetRequestMsg", nonce |-> 0, eth_signature |-> None]
      [] o = "send_valset_confirm" ->
             [type |-> "ValsetConfirmMsg", nonce |-> a.valset.nonce,
              eth_signature |->
                  Some(sign_ethereum_msg(encode_tokens(PeggyId, a.valset.nonce,
                      CheckedAddresses(a.valset).val, a.valset.powers)))]

StdSignMsg(info, msg) ==
    [chain_id |-> info.chain_id, account_number |-> info.account_number,
     sequence |-> info.sequence, msgs |-> <<msg>>]

\* private_key.sign_std_msg(std_sign_msg, mode)
sign_std_msg(std_sign_msg, mode) ==
    [mode |-> mode, msg |-> std_sign_msg,
     signature |-> [signer |-> "cosmos_key", over |-> std_sign_msg]]

\* send_valset_confirm only: filter_empty_addresses(..)? returns its error.
BuildRejected ==
    /\ pc = "build"
    /\ op = "send_valset_confirm"
    /\ IsErr(CheckedAddresses(args.valset))
    /\ res' = CheckedAddresses(args.valset)
    /\ pc' = "done"
    /\ UNCHANGED <<op, args, timeout, now, start, time_left, tx_info, tx, sent,
                   outcomes, lookups, signCount, spent>>
    /\ UNCHANGED lookup_res
    /\ UNCHANGED notOpVars

\* The message is built and signed once; retry_on_block is entered.
BuildAndSign ==
    /\ pc = "build"
    /\ op = "send_valset_confirm" => IsOk(CheckedAddresses(args.valset))
    /\ tx' = Some(sign_std_msg(StdSignMsg(tx_info.val, BuildMsg(op, args)),
                               "Block"))
    /\ signCount' = signCount + 1
    /\ pc' = "retry"
    /\ UNCHANGED <<op, args, timeout, now, start, time_left, tx_info, res, sent,
                   outcomes, lookups, spent>>
    /\ UNCHANGED lookup_res
    /\ UNCHANGED notOpVars

\* A mode test that sends every transaction through the retry loop.
EveryModeBlock(t) == TRUE

\* if let Transaction::Block(..) = tx
IsBlock(t) == t.mode = "Block"

\* retry_on_block, Block mode: start = Instant::now(); the first request
\* gets self.timeout.
RetryEntry ==
    /\ pc = "retry"
    /\ IsBlock(tx.val)
    /\ start' = now
    /\ time_left' = timeout
    /\ pc' = "send"
    /\ UNCHANGED <<op, args, timeout, now, tx_info, tx, res, sent, outcomes,
                   lookups, signCount, spent>>
    /\ UNCHANGED lookup_res
    /\ UNCHANGED notOpVars

\* A payload signed again for attempt n, with the next sequence number.
ResignedPayload(t, n) ==
    IF n = 1 THEN t
    ELSE sign_std_msg([t.msg EXCEPT !.sequence = @ + n - 1], t.mode)

\* The payload of attempt n: Some(tx.clone()).
Payload(t, n) == t

\* request_method("txs", Some(tx.clone()), <timeout>, None) is issued.
SendRequest ==
    /\ pc = "send"
    /\ Len(sent) < MaxAttempts
    /\ sent' = Append(sent, [tx |-> Payload(tx.val, Len(sent) + 1),
                             timeout |-> time_left, at |-> now])
    /\ pc' = "await"
    /\ UNCHANGED <<op, args, timeout, now, start, time_left, tx_info, tx, res,
                   outcomes, lookups, signCount, spent>>
    /\ UNCHANGED lookup_res
    /\ UNCHANGED notOpVars

\* The request in flight.
Cur == sent[Len(sent)]

\* The chain's answer to an accepted transaction.
TXSendResponse(payload) == [txhash |-> [hash_of |-> payload]]

\* What request_method can return: the decoded result, or one of its
\* three error arms.  The client's timer fires only at the timeout.
RequestOutcomes ==
    {Ok(TXSendResponse(Cur.tx)), Err(Disconnected), Err(BadResponse),
     Err(ResponseError)}
    \cup (IF now - Cur.at >= Cur.timeout THEN {Err(TimedOut)} ELSE {})

\* request_method returns.
SendReturn ==
    /\ pc = "await"
    /\ \E outcome \in RequestOutcomes :
           /\ res' = outcome
           /\ outcomes' = Append(outcomes, outcome)
    /\ spent' = spent + (now - Cur.at)
    /\ pc' = "loop"
    /\ UNCHANGED <<op, args, timeout, now, start, time_left, tx_info, tx, sent,
                   lookups, signCount>>
    /\ UNCHANGED lookup_res
    /\ UNCHANGED notOpVars

\* A retry condition that takes every send failure for a lost connection.
AnySendFailure(r) == IsErr(r) /\ r.err.kind = "FailedToSend"

\* A retry condition that ignores the result.
AlwaysRetry(r) == TRUE

\* while let Err(FailedToSend(Connect(Disconnected))) = res
IsTransient(r) == r = Err(Disconnected)

\* if Instant::now() - start > self.timeout { break; }
DeadlinePassed(elapsed, total) == elapsed > total

\* The loop head and the deadline check: one clock read.
LoopCheck ==
    /\ pc = "loop"
    /\ pc' = IF IsTransient(res) /\ ~DeadlinePassed(now - start, timeout)
             THEN "compute" ELSE "done"
    /\ UNCHANGED <<op, args, timeout, now, start, time_left, tx_info, tx, res,
                   sent, outcomes, lookups, signCount, spent>>
    /\ UNCHANGED lookup_res
    /\ UNCHANGED notOpVars

\* A remaining time that forgets what has elapsed.
FullTimeoutAgain(total, elapsed) == Some(total)

\* The elapsed time handed on in place of the remaining time.
ElapsedAsTimeLeft(total, elapsed) == Some(elapsed)

\* Duration - Duration: the difference, or a panic on underflow (None).
DurationSub(total, elapsed) ==
    IF elapsed > total THEN None ELSE Some(total - elapsed)

\* let time_left = self.timeout - (Instant::now() - start): a second
\* clock read.
ComputeTimeLeft ==
    /\ pc = "compute"
    /\ LET d == DurationSub(timeout, now - start) IN
       IF IsSome(d)
       THEN /\ time_left' = d.val
            /\ pc' = "send"
       ELSE /\ time_left' = time_left
            /\ pc' = "panicked"
    /\ UNCHANGED <<op, args, timeout, now, start, tx_info, tx, res, sent,
                   outcomes, lookups, signCount, spent>>
    /\ UNCHANGED lookup_res
    /\ UNCHANGED notOpVars

\* The wall clock advances, between any two steps of retry_on_block; a
\* request in flight returns by the timeout it was given.
Tick ==
    /\ pc \in {"send", "await", "loop", "compute", "await_once"}
    /\ now < MaxTime
    /\ pc \in {"await", "await_once"} => now - Cur.at < Cur.timeout
    /\ now' = now + 1
    /\ UNCHANGED <<pc, op, args, timeout, start, time_left, tx_info, tx, res,
                   sent, outcomes, lookups, signCount, spent>>
    /\ UNCHANGED lookup_res
    /\ UNCHANGED notOpVars

Next ==
    \/ /\ pc = "idle"
       /\ \E o \in Ops, ci \in ChainIdArgs, an \in AccountNumberArgs,
             sq \in SequenceArgs :
              \E vs \in (IF o = "send_valset_confirm" THEN Valsets
                          ELSE {NoValset}) :
                  Call(o, ci, an, sq, vs)
    \/ ResolveSupplied
    \/ \E r \in LookupResults : ResolveLookup(r)
    \/ BuildRejected
    \/ BuildAndSign
    \/ RetryEntry
    \/ SendRequest
    \/ SendReturn
    \/ LoopCheck
    \/ ComputeTimeLeft
    \/ Tick

Spec == Init /\ [][Next]_vars

\* ------------------------------------- SpecRetry: retry_on_block alone

\* The send modes of a signed Transaction.
Modes == {"Block", "Sync", "Async"}

\* retry_on_block is entered with a signed transaction of any mode.
InitRetry ==
    /\ pc = "retry"
    /\ op = "retry_on_block"
    /\ args = NoArgs
    /\ timeout \in 0..MaxTimeout
    /\ now = 0 /\ start = 0 /\ time_left = 0
    /\ tx_info = None
    /\ \E m \in Modes :
           tx = Some(sign_std_msg(
                        StdSignMsg(OnChain,
                                   BuildMsg("create_and_send_transaction",
                                            NoArgs)), m))
    /\ res = None
    /\ sent = <<>> /\ outcomes = <<>>
    /\ lookups = 0 /\ lookup_res = None /\ signCount = 1 /\ spent = 0
    /\ NormOff
    /\ WireOff
    /\ EncOff
    /\ StatusOff
    /\ IdsOff
    /\ AcctOff
    /\ PairOff

\* The else branch: one request_method("txs", Some(tx.clone()),
\* self.timeout, None) is issued.
SendOnce ==
    /\ pc = "retry"
    /\ ~IsBlock(tx.val)
    /\ sent' = Append(sent, [tx |-> Payload(tx.val, Len(sent) + 1),
                             timeout |-> timeout, at |-> now])
    /\ pc' = "await_once"
    /\ UNCHANGED <<op, args, timeout, now, start, time_left, tx_info, tx, res,
                   outcomes, lookups, signCount, spent>>
    /\ UNCHANGED lookup_res
    /\ UNCHANGED notOpVars

\* The else branch: what that request returns is the function's result.
SendOnceReturn ==
    /\ pc = "await_once"
    /\ \E outcome \in RequestOutcomes :
           /\ res' = outcome
           /\ outcomes' = Append(outcomes, outcome)
    /\ spent' = spent + (now - Cur.at)
    /\ pc' = "done"
    /\ UNCHANGED <<op, args, timeout, now, start, time_left, tx_info, tx, sent,
                   lookups, signCount>>
    /\ UNCHANGED lookup_res
    /\ UNCHANGED notOpVars

\* The steps of retry_on_block itself, the clock apart.
RetrySteps ==
    \/ RetryEntry
    \/ SendRequest
    \/ SendReturn
    \/ LoopCheck
    \/ ComputeTimeLeft
    \/ SendOnce
    \/ SendOnceReturn

NextRetry ==
    \/ RetrySteps
    \/ Tick

\* The function keeps running and every request returns; the clock keeps
\* advancing while the function runs.
SpecRetry ==
    InitRetry /\ [][NextRetry]_vars /\ WF_vars(RetrySteps) /\ WF_vars(Tick)

\* ------------------------------ SpecEnc: the checkpoint of a valset

\* What a caller may pass to send_valset_confirm, and what the call has
\* resolved, by the time it encodes the checkpoint.
PeggyIds == {PeggyId, "other"}
EthPrivateKeys == {"eth_key", "eth_key_2"}
TxInfos == {OnChain,
            [chain_id |-> "caller-chain", account_number |-> 5, sequence |-> 9]}
EncValsets ==
    [nonce : {1},
     powers : SeqUpTo(Powers, MaxEncVals),
     eth_addresses : SeqUpTo({None, Some(AddrA), Some(AddrB)}, MaxEncVals)]
\* A second valset, confirmed through the same client.
OtherValset == [nonce |-> 2, powers |-> <<20>>, eth_addresses |-> <<Some(AddrB)>>]

\* The checkpoint with the account's sequence mixed into the nonce.
CheckpointWithSequence(call) ==
    LET addresses == filter_empty_addresses(call.valset.eth_addresses) IN
    IF IsErr(addresses) THEN addresses
    ELSE Ok(encode_tokens(call.peggy_id, call.valset.nonce + call.tx_info.sequence,
                          addresses.val, call.valset.powers))

\* send_valset_confirm's message: of all that is in scope (the keys, the
\* resolved tx_info, the client and its counter) the encoding takes the
\* peggy_id and the valset; a None address returns BadInput instead.
checkpoint_message(call) ==
    LET addresses == filter_empty_addresses(call.valset.eth_addresses) IN
    IF IsErr(addresses) THEN addresses
    ELSE Ok(encode_tokens(call.peggy_id, call.valset.nonce,
                          addresses.val, call.valset.powers))

InitEnc ==
    /\ enc_valset \in EncValsets
    /\ enc_calls = <<>>
    /\ enc_id = 0
    /\ OpOff
    /\ NormOff
    /\ WireOff
    /\ StatusOff
    /\ IdsOff
    /\ AcctOff
    /\ PairOff

\* One send_valset_confirm, up to the signature over the checkpoint; the
\* call's requests advance the client's id counter.
EncodeCheckpoint(peggy_id, eth_private_key, info, valset) ==
    /\ Len(enc_calls) < MaxCalls
    /\ LET call == [peggy_id |-> peggy_id,
                    valset |-> valset,
                    eth_private_key |-> eth_private_key,
                    tx_info |-> info,
                    id_counter |-> enc_id]
       IN enc_calls' = Append(enc_calls,
                              [call |-> call, message |-> checkpoint_message(call)])
    /\ enc_id' = enc_id + 1
    /\ UNCHANGED enc_valset
    /\ UNCHANGED notEncVars

NextEnc ==
    \E peggy_id \in PeggyIds, eth_private_key \in EthPrivateKeys, info \in TxInfos :
        \E valset \in {enc_valset, OtherValset} :
            EncodeCheckpoint(peggy_id, eth_private_key, info, valset)

SpecEnc == InitEnc /\ [][NextEnc]_vars

\* ------------------------------------ SpecStatus: get_chain_status

\* CosmosGrpcError, as get.rs uses it.
ConnectionError == [kind |-> "ConnectionError", detail |-> "transport"]
RequestError == [kind |-> "RequestError", detail |-> "status"]
GrpcBadResponse(msg) == [kind |-> "BadResponse", detail |-> msg]

\* ChainStatus
Syncing == [status |-> "Syncing"]
WaitingToStart == [status |-> "WaitingToStart"]
Moving(h) == [status |-> "Moving", block_height |-> h]

\* `commit.height as u64`: the signed height reinterpreted as unsigned.
AsUnsigned(h) == h % (2 ^ HeightBits)

\* The latest block a node may hold: none before genesis, or a block
\* whose last_commit is present (with its height, which "can be
\* negative") or missing.
Commits == {None} \cup {Some([height |-> h]) : h \in (-1)..MaxHeight}
NodeBlocks == {None} \cup {Some([last_commit |-> c]) : c \in Commits}
NodeStates == [syncing : BOOLEAN, block : NodeBlocks]

\* The match on the latest block with every not-ready answer an error.
MatchBlockStrict(b) ==
    IF IsSome(b)
    THEN IF IsSome(b.val.last_commit)
         THEN Ok(Moving(AsUnsigned(b.val.last_commit.val.height)))
         ELSE Err(GrpcBadResponse("No commit in block?"))
    ELSE Err(GrpcBadResponse("No block"))

\* get_chain_status's match on the latest block.
MatchBlock(b) ==
    IF IsSome(b)
    THEN IF IsSome(b.val.last_commit)
         THEN Ok(Moving(AsUnsigned(b.val.last_commit.val.height)))
         ELSE Err(GrpcBadResponse("No commit in block?"))
    ELSE Ok(WaitingToStart)

InitStatus ==
    /\ spc = "connect"
    /\ node \in NodeStates
    /\ syncing = None
    /\ block = None
    /\ status = None
    /\ OpOff
    /\ NormOff
    /\ WireOff
    /\ EncOff
    /\ IdsOff
    /\ AcctOff
    /\ PairOff

\* TendermintServiceClient::connect(..).await?
Connect(ok) ==
    /\ spc = "connect"
    /\ IF ok THEN spc' = "get_syncing" /\ status' = status
       ELSE spc' = "done" /\ status' = Some(Err(ConnectionError))
    /\ UNCHANGED <<node, syncing, block>>
    /\ UNCHANGED notStatusVars

\* grpc.get_syncing(..).await? and the branch on its answer.
GetSyncing(ok) ==
    /\ spc = "get_syncing"
    /\ IF ok
       THEN /\ syncing' = Some(node.syncing)
            /\ IF node.syncing
               THEN spc' = "done" /\ status' = Some(Ok(Syncing))
               ELSE spc' = "get_latest_block" /\ status' = status
       ELSE /\ syncing' = syncing
            /\ spc' = "done"
            /\ status' = Some(Err(RequestError))
    /\ UNCHANGED <<node, block>>
    /\ UNCHANGED notStatusVars

\* grpc.get_latest_block(..).await? and the match on the block.
GetLatestBlock(ok) ==
    /\ spc = "get_latest_block"
    /\ IF ok
       THEN /\ block' = Some(node.block)
            /\ status' = Some(MatchBlock(node.block))
       ELSE /\ block' = block
            /\ status' = Some(Err(RequestError))
    /\ spc' = "done"
    /\ UNCHANGED <<node, syncing>>
    /\ UNCHANGED notStatusVars

\* The node goes on while the client waits: it finishes syncing, starts,
\* commits blocks.
NodeChanges ==
    /\ spc \in {"connect", "get_syncing", "get_latest_block"}
    /\ \E n \in NodeStates : n # node /\ node' = n
    /\ UNCHANGED <<spc, syncing, block, status>>
    /\ UNCHANGED notStatusVars

NextStatus ==
    \/ \E ok \in BOOLEAN : Connect(ok)
    \/ \E ok \in BOOLEAN : GetSyncing(ok)
    \/ \E ok \in BOOLEAN : GetLatestBlock(ok)
    \/ NodeChanges

SpecStatus == InitStatus /\ [][NextStatus]_vars

\* ------------------------- SpecIds: request ids under concurrent calls

Tasks == 1..NumTasks
NoTask == 0

\* A mutex that never makes a caller wait.
MutexAlwaysFree(holder) == TRUE

\* counter.lock(): the caller goes on once no task holds the mutex.
MutexFree(holder) == holder = NoTask

\* HTTPClient::new: the counter at 0, the mutex free, no task inside.
InitIds ==
    /\ id_counter = 0
    /\ id_lock = NoTask
    /\ id_pc = [t \in Tasks |-> "idle"]
    /\ issued = <<>>
    /\ OpOff
    /\ NormOff
    /\ WireOff
    /\ EncOff
    /\ StatusOff
    /\ AcctOff
    /\ PairOff

\* Ids asked for so far.
IdsStarted == Len(issued) + Cardinality({t \in Tasks : id_pc[t] # "idle"})

\* request_method reaches Request::new(self.next_id(), ..): next_id is
\* entered and clones the Arc.
CallNextId(t) ==
    /\ id_pc[t] = "idle"
    /\ IdsStarted < MaxIds
    /\ id_pc' = [id_pc EXCEPT ![t] = "lock"]
    /\ UNCHANGED <<id_counter, id_lock, issued>>
    /\ UNCHANGED notIdVars

\* counter.lock().expect("id error")
Lock(t) ==
    /\ id_pc[t] = "lock"
    /\ MutexFree(id_lock)
    /\ id_lock' = t
    /\ id_pc' = [id_pc EXCEPT ![t] = "locked"]
    /\ UNCHANGED <<id_counter, issued>>
    /\ UNCHANGED notIdVars

\* *value += 1
Increment(t) ==
    /\ id_pc[t] = "locked"
    /\ id_counter' = id_counter + 1
    /\ id_pc' = [id_pc EXCEPT ![t] = "incremented"]
    /\ UNCHANGED <<id_lock, issued>>
    /\ UNCHANGED notIdVars

\* *value is returned, the guard is dropped and the request is built with
\* the id.
ReturnId(t) ==
    /\ id_pc[t] = "incremented"
    /\ issued' = Append(issued, [task |-> t, id |-> id_counter])
    /\ id_lock' = IF id_lock = t THEN NoTask ELSE id_lock
    /\ id_pc' = [id_pc EXCEPT ![t] = "idle"]
    /\ UNCHANGED id_counter
    /\ UNCHANGED notIdVars

NextIds ==
    \E t \in Tasks :
        \/ CallNextId(t)
        \/ Lock(t)
        \/ Increment(t)
        \/ ReturnId(t)

SpecIds == InitIds /\ [][NextIds]_vars

\* ----------------------------------- SpecAccount: get_account_info

NoToken == [kind |-> "NoToken", detail |-> "none"]
DecodeError == [kind |-> "DecodeError", detail |-> "prost"]

\* The protobuf fields an account record (the bytes of the Any the node
\* returns) is made of: a base_account with its data, another field of
\* ModuleAccount, or bytes that are no field at all.
BaseAccountField(n) ==
    [field |-> "base_account", account_number |-> 1, sequence |-> n]
NameField == [field |-> "name", account_number |-> 0, sequence |-> 0]
InvalidField == [field |-> "invalid", account_number |-> 0, sequence |-> 0]
RecordFields == {BaseAccountField(2), BaseAccountField(3), NameField,
                 InvalidField}
AccountRecords == SeqUpTo(RecordFields, MaxRecordLen)

\* What a node answers to an account query: a status error, or a
\* QueryAccountResponse without an account or with a record.
AccountReplies ==
    {Err(RequestError), Ok([account |-> None])}
        \cup {Ok([account |-> Some(r)]) : r \in AccountRecords}

\* BytesMut::with_capacity(n): room for n bytes, none of them written.
BytesMutWithCapacity(n) == <<>>

\* <[u8]>::copy_from_slice: the two slices must have the same length;
\* None stands for the panic.
copy_from_slice(buf, src) ==
    IF Len(buf) = Len(src) THEN Some(src) ELSE None

\* The last base_account field of a record, as prost merges them.
RECURSIVE LastBaseAccount(_)
LastBaseAccount(r) ==
    IF r = <<>> THEN None
    ELSE IF r[Len(r)].field = "base_account" THEN Some(r[Len(r)])
    ELSE LastBaseAccount(SubSeq(r, 1, Len(r) - 1))

\* Message::decode into a ModuleAccount: every field must be one, an
\* empty buffer is the default message.
DecodeModuleAccount(buf) ==
    IF \E i \in 1..Len(buf) : buf[i].field = "invalid"
    THEN Err(DecodeError)
    ELSE Ok([base_account |-> LastBaseAccount(buf)])

\* b.into(): the BaseAccount handed to the caller.
IntoBaseAccount(b) ==
    [account_number |-> b.account_number, sequence |-> b.sequence]

\* The match on res.account, up to the function's return; None stands
\* for the panic.
MatchAccount(account) ==
    IF ~IsSome(account) THEN Some(Err(NoToken))
    ELSE LET buf == copy_from_slice(BytesMutWithCapacity(Len(account.val)),
                                    account.val) IN
         IF ~IsSome(buf) THEN None
         ELSE LET decoded_account == DecodeModuleAccount(buf.val) IN
              IF IsErr(decoded_account) THEN Some(decoded_account)
              ELSE IF IsSome(decoded_account.val.base_account)
                   THEN Some(Ok(IntoBaseAccount(
                                    decoded_account.val.base_account.val)))
                   ELSE Some(Err(NoToken))

InitAcct ==
    /\ apc = "connect"
    /\ acct_node \in AccountReplies
    /\ acct_reply = None
    /\ acct_result = None
    /\ acct_queries = 0
    /\ OpOff
    /\ NormOff
    /\ WireOff
    /\ EncOff
    /\ StatusOff
    /\ IdsOff
    /\ PairOff

\* AuthQueryClient::connect(..).await?
ConnectAccount(ok) ==
    /\ apc = "connect"
    /\ IF ok THEN apc' = "query" /\ acct_result' = acct_result
       ELSE apc' = "done" /\ acct_result' = Some(Err(ConnectionError))
    /\ UNCHANGED <<acct_node, acct_reply, acct_queries>>
    /\ UNCHANGED notAcctVars

\* agrpc.account(..).await?.into_inner(): the request reaches the node
\* and is answered, or fails on the way.
AccountQuery(ok) ==
    /\ apc = "query"
    /\ acct_queries' = acct_queries + 1
    /\ IF ok /\ IsOk(acct_node)
       THEN /\ acct_reply' = Some(acct_node.val)
            /\ apc' = "match"
            /\ acct_result' = acct_result
       ELSE /\ acct_reply' = acct_reply
            /\ apc' = "done"
            /\ acct_result' = Some(Err(RequestError))
    /\ UNCHANGED acct_node
    /\ UNCHANGED notAcctVars

\* The rest of get_account_info: copy, decode, match.
AccountMatch ==
    /\ apc = "match"
    /\ LET r == MatchAccount(acct_reply.val.account) IN
       IF IsSome(r)
       THEN apc' = "done" /\ acct_result' = r
       ELSE apc' = "panicked" /\ acct_result' = acct_result
    /\ UNCHANGED <<acct_node, acct_reply, acct_queries>>
    /\ UNCHANGED notAcctVars

NextAcct ==
    \/ \E ok \in BOOLEAN : ConnectAccount(ok)
    \/ \E ok \in BOOLEAN : AccountQuery(ok)
    \/ AccountMatch

SpecAccount == InitAcct /\ [][NextAcct]_vars

\* ------------------------- SpecPair: two operations on one account

\* Two callers, each with a clone of one Contact and the same private key.
PairTasks == {1, 2}
PairOps == {"create_and_send_transaction", "send_valset_request"}

\* A gate that lets one operation at a time work on the account.
AccountHeldByNone(t, pcs) ==
    \A u \in PairTasks \ {t} : pcs[u] \in {"resolve", "done"}

\* Contact holds a client and a timeout and nothing per account: an
\* operation goes on to its lookup whatever the other one is doing.
AccountFree(t, pcs) == TRUE

\* Both operations have been called; neither was given a chain id or an
\* account number, each may have been given a sequence.
InitPair ==
    /\ pair_pc = [t \in PairTasks |-> "resolve"]
    /\ pair_args \in [PairTasks -> [op : PairOps, chain_id : {None},
                                    account_number : {None},
                                    sequence : SequenceArgs]]
    /\ pair_seen = [t \in PairTasks |-> None]
    /\ pair_info = [t \in PairTasks |-> None]
    /\ pair_tx = [t \in PairTasks |-> None]
    /\ pair_sent = <<>>
    /\ pair_res = [t \in PairTasks |-> None]
    /\ chain_sequence = OnChain.sequence
    /\ OpOff
    /\ NormOff
    /\ WireOff
    /\ EncOff
    /\ StatusOff
    /\ IdsOff
    /\ AcctOff

\* The account record the chain holds now.
AccountNow == [OnChain EXCEPT !.sequence = chain_sequence]

\* maybe_get_optional_tx_info(..).await?: the lookup reads the account as
\* it is now, or fails.
PairResolve(t, ok) ==
    /\ pair_pc[t] = "resolve"
    /\ AccountFree(t, pair_pc)
    /\ NeedsLookup(pair_args[t])
    /\ IF ok
       THEN /\ pair_seen' = [pair_seen EXCEPT ![t] = Some(AccountNow)]
            /\ pair_info' = [pair_info EXCEPT
                                ![t] = Some(FillTxInfo(pair_args[t], AccountNow))]
            /\ pair_pc' = [pair_pc EXCEPT ![t] = "build"]
            /\ pair_res' = pair_res
       ELSE /\ pair_res' = [pair_res EXCEPT
                               ![t] = Some(Err(FromError(ResponseError)))]
            /\ pair_pc' = [pair_pc EXCEPT ![t] = "done"]
            /\ UNCHANGED <<pair_seen, pair_info>>
    /\ UNCHANGED <<pair_args, pair_tx, pair_sent, chain_sequence>>
    /\ UNCHANGED notPairVars

\* The StdSignMsg is built from the resolved fields and signed.
PairSign(t) ==
    /\ pair_pc[t] = "build"
    /\ pair_tx' = [pair_tx EXCEPT
                      ![t] = Some(sign_std_msg(
                                 StdSignMsg(pair_info[t].val,
                                            BuildMsg(pair_args[t].op, NoArgs)),
                                 "Block"))]
    /\ pair_pc' = [pair_pc EXCEPT ![t] = "retry"]
    /\ UNCHANGED <<pair_args, pair_seen, pair_info, pair_sent, pair_res,
                   chain_sequence>>
    /\ UNCHANGED notPairVars

\* retry_on_block issues its first request.
PairSubmit(t) ==
    /\ pair_pc[t] = "retry"
    /\ pair_sent' = Append(pair_sent,
                           [task |-> t, tx |-> Payload(pair_tx[t].val, 1)])
    /\ pair_pc' = [pair_pc EXCEPT ![t] = "await"]
    /\ UNCHANGED <<pair_args, pair_seen, pair_info, pair_tx, pair_res,
                   chain_sequence>>
    /\ UNCHANGED notPairVars

\* The chain's verdict on a transaction: it takes the one that carries
\* the account's current sequence.
ChainAccepts(t) == pair_tx[t].val.msg.sequence = chain_sequence

\* The request returns with the chain's verdict, which is not a lost
\* connection: retry_on_block returns it.
PairReturn(t) ==
    /\ pair_pc[t] = "await"
    /\ IF ChainAccepts(t)
       THEN /\ chain_sequence' = chain_sequence + 1
            /\ pair_res' = [pair_res EXCEPT
                    ![t] = Some(Ok(TXSendResponse(pair_tx[t].val)))]
       ELSE /\ chain_sequence' = chain_sequence
            /\ pair_res' = [pair_res EXCEPT ![t] = Some(Err(ResponseError))]
    /\ pair_pc' = [pair_pc EXCEPT ![t] = "done"]
    /\ UNCHANGED <<pair_args, pair_seen, pair_info, pair_tx, pair_sent>>
    /\ UNCHANGED notPairVars

NextPair ==
    \/ \E t \in PairTasks, ok \in BOOLEAN : PairResolve(t, ok)
    \/ \E t \in PairTasks : PairSign(t)
    \/ \E t \in PairTasks : PairSubmit(t)
    \/ \E t \in PairTasks : PairReturn(t)

SpecPair == InitPair /\ [][NextPair]_vars

\* ----------------------------------------------------------------- claims

\* Send attempts that ended with the lost-connection error.
NumDisconnected ==
    Cardinality({i \in 1..Len(outcomes) : outcomes[i] = Err(Disconnected)})

HasNone(addrs) == \E i \in 1..Len(addrs) : addrs[i] = None

MissingAddress == Err(BadInput("All Eth Addresses must be set"))

\* C1 (as claimed, for a positive timeout): every send attempt after the
\* first starts while the time elapsed since start is strictly below the
\* total timeout.
C1_RetriesStartBeforeTimeout ==
    timeout > 0 =>
        \A i \in 2..Len(sent) : sent[i].at - start < timeout

\* C2 (as claimed, for a positive timeout): the remaining timeout computed
\* for a retry is strictly positive: the subtraction neither underflows
\* (panics) nor yields zero, and no retry is sent with a timeout of zero.
C2_RemainingTimeoutPositive ==
    timeout > 0 =>
        /\ pc # "panicked"
        /\ pc = "send" => time_left > 0
        /\ \A i \in 2..Len(sent) : sent[i].timeout > 0

\* C3: an attempt that ends with an error other than the lost connection
\* is the last attempt, and its error is the submission's result.
C3_OnlyDisconnectedRetried ==
    \A i \in 1..Len(outcomes) :
        (IsErr(outcomes[i]) /\ outcomes[i] # Err(Disconnected)) =>
            /\ Len(sent) = i
            /\ pc \in {"loop", "done"}
            /\ res = outcomes[i]

C3_Witness ==
    /\ pc = "done"
    /\ Len(sent) = 2
    /\ outcomes = <<Err(Disconnected), Err(ResponseError)>>
    /\ res = Err(ResponseError)

\* C4: a submission that returns the chain's acceptance after k lost
\* connections has made exactly k+1 attempts, and its result is the one a
\* first-attempt success gives: the response to the signed transaction.
C4_RetriesThenSuccess ==
    (pc = "done" /\ IsOk(res)) =>
        /\ Len(sent) = NumDisconnected + 1
        /\ res = Ok(TXSendResponse(tx.val))

C4_Witness ==
    /\ pc = "done"
    /\ IsOk(res)
    /\ NumDisconnected = 2
    /\ Len(sent) = 3

\* C5 (as claimed, for a positive timeout): when the loop head finds a
\* transient failure and the total timeout used up, the submission ends
\* there and returns that lost-connection error.
C5_StopsWhenTimeoutUsedUp ==
    [][(timeout > 0 /\ pc = "loop" /\ pc' # "loop" /\ IsTransient(res)
            /\ now - start >= timeout)
        => (pc' = "done" /\ res' = Err(Disconnected))]_vars

C7_SameSignedTxEveryAttempt ==
    /\ signCount <= 1
    /\ sent # <<>> =>
           /\ signCount = 1
           /\ \A i \in 1..Len(sent) : sent[i].tx = tx.val

C7_Witness ==
    /\ pc = "done"
    /\ Len(sent) = 3
    /\ NumDisconnected = 2

\* C8 (as claimed): send_valset_confirm on a valset with a None address
\* returns the missing-address error and has issued no network call,
\* neither an account lookup nor a transaction POST.
C8_MissingAddressBeforeNetwork ==
    (pc = "done" /\ op = "send_valset_confirm"
        /\ HasNone(args.valset.eth_addresses))
    => (res = MissingAddress /\ lookups = 0 /\ sent = <<>>)

\* C9: filter_empty_addresses gives Ok of the addresses, in order, when
\* every entry is Some (the empty input included), and the bad-input error
\* when an entry is None, wherever it is.
C9_FilterEmptyAddresses ==
    npc = "filtered" =>
        LET input == normalized.eth_addresses IN
        IF \A i \in 1..Len(input) : IsSome(input[i])
        THEN /\ IsOk(filtered)
             /\ Len(filtered.val) = Len(input)
             /\ \A i \in 1..Len(input) : filtered.val[i] = input[i].val
        ELSE filtered = MissingAddress

C9_Witness ==
    /\ npc = "filtered"
    /\ normalized.eth_addresses = <<Some(AddrA), None>>
    /\ filtered = MissingAddress

\* What convert owes at each index of eth_addresses.
ConvertedEntry(s) ==
    IF s = <<>> \/ IsErr(ParseEthAddress(s)) THEN None
    ELSE Some(ParseEthAddress(s).val)

EntriesKept ==
    /\ Len(normalized.eth_addresses) = Len(raw.eth_addresses)
    /\ \A i \in 1..Len(raw.eth_addresses) :
           normalized.eth_addresses[i] = ConvertedEntry(raw.eth_addresses[i])
    /\ normalized.powers = raw.powers
    /\ normalized.nonce = raw.nonce

\* C10 (as claimed): convert keeps every entry at its index and the
\* resulting powers and eth_addresses have equal length.
C10_ConvertEqualLength ==
    npc # "raw" =>
        /\ EntriesKept
        /\ Len(normalized.powers) = Len(normalized.eth_addresses)

\* C10 (amended): convert keeps every entry at its index, an empty or
\* unparseable address as None, and keeps the length of each sequence:
\* powers and eth_addresses have equal length when the raw ones have.
C10_ConvertKeepsEveryEntry ==
    npc # "raw" =>
        /\ EntriesKept
        /\ Len(raw.powers) = Len(raw.eth_addresses) =>
               Len(normalized.powers) = Len(normalized.eth_addresses)

C10_Witness ==
    /\ npc = "converted"
    /\ Len(raw.eth_addresses) = 2
    /\ raw.eth_addresses[1] = <<>>
    /\ normalized.eth_addresses = <<None, Some(AddrA)>>
    /\ Len(normalized.powers) = 2

\* A wire value that is no string, or a string that is no number.
Unparseable(v) ==
    IF v.json = "string" THEN IsErr(FromStrUint(v.chars)) ELSE TRUE

\* The number a wire string stands for.
WireNumber(v) == FromStrUint(v.chars).val

\* The envelope and the nonce of a valset body are sound.
ValsetEnvelopeSound(w) ==
    /\ w.kind = "valset"
    /\ ~Unparseable(w.height)
    /\ ~Unparseable(w.result.Nonce)

\* C11 (as claimed): a raw valset response with an unparseable power is
\* still decoded and normalized; the normalized power at that index is 0
\* and every other power is the one the node wrote.
C11_CorruptPowerBecomesZero ==
    (/\ wpc # "wire"
     /\ ValsetEnvelopeSound(wire)
     /\ \E i \in 1..Len(wire.result.Powers) : Unparseable(wire.result.Powers[i]))
    => /\ wpc # "failed"
       /\ wpc \in {"converted", "reserialized"} =>
              /\ Len(converted.val.result.powers) = Len(wire.result.Powers)
              /\ \A i \in 1..Len(wire.result.Powers) :
                     converted.val.result.powers[i] =
                         IF Unparseable(wire.result.Powers[i]) THEN 0
                         ELSE WireNumber(wire.result.Powers[i])

\* Every string of a valset body is valid.
WellFormedValset(w) ==
    /\ ValsetEnvelopeSound(w)
    /\ \A i \in 1..Len(w.result.Powers) : ~Unparseable(w.result.Powers[i])
    /\ \A i \in 1..Len(w.result.EthAddresses) :
           IsOk(ParseEthAddress(w.result.EthAddresses[i].chars))

\* C12: a well-formed raw valset is decoded and normalized, and the
\* normalized valset written out again carries the original nonce, the
\* original powers in order and the original address at every index.
C12_RoundTrip ==
    (wpc # "wire" /\ WellFormedValset(wire)) =>
        /\ wpc # "failed"
        /\ wpc = "reserialized" =>
               LET out == reserialized.val.result
                   in == wire.result
               IN /\ WireNumber(out.nonce) = WireNumber(in.Nonce)
                  /\ Len(out.powers) = Len(in.Powers)
                  /\ \A i \in 1..Len(in.Powers) :
                         WireNumber(out.powers[i]) = WireNumber(in.Powers[i])
                  /\ Len(out.eth_addresses) = Len(in.EthAddresses)
                  /\ \A i \in 1..Len(in.EthAddresses) :
                         /\ IsSome(out.eth_addresses[i])
                         /\ ParseEthAddress(out.eth_addresses[i].val) =
                                ParseEthAddress(in.EthAddresses[i].chars)

\* A round trip in which the strings themselves change: a nonce with a
\* leading zero, an upper-case address without prefix, two powers.
C12_Witness ==
    /\ wpc = "reserialized"
    /\ WellFormedValset(wire)
    /\ wire.result.Nonce = JStr(<<"0", "3">>)
    /\ reserialized.val.result.nonce = JStr(<<"3">>)
    /\ wire.result.Powers = <<JStr(<<"1", "0">>), JStr(<<"2", "0">>)>>
    /\ Len(wire.result.EthAddresses) = 2
    /\ wire.result.EthAddresses[1] = JStr([i \in 1..AddrHexLen |-> "B"])
    /\ reserialized.val.result.eth_addresses[1] =
           Some(<<"0", "x">> \o [i \in 1..AddrHexLen |-> "b"])

\* A strictly parsed field of the body cannot be parsed: the height of
\* any of the three bodies, or the nonce of a valset.
StrictFieldUnparseable(w) ==
    \/ Unparseable(w.height)
    \/ (w.kind = "valset" /\ Unparseable(w.result.Nonce))

\* C20: when a strictly parsed string field (a height, the valset nonce)
\* cannot be parsed, decoding the whole response fails: the caller gets
\* an error, no response value and no default in the field's place.
C20_StrictFieldFailsResponse ==
    (wpc # "wire" /\ StrictFieldUnparseable(wire)) =>
        /\ wpc = "failed"
        /\ IsErr(decoded)
        /\ converted = None

\* A valset body sound in everything but its nonce has been refused.
C20_Witness ==
    /\ wpc = "failed"
    /\ wire.kind = "valset"
    /\ ~Unparseable(wire.height)
    /\ wire.result.Nonce = JStr(<<"x", "1">>)
    /\ \A i \in 1..Len(wire.result.Powers) : ~Unparseable(wire.result.Powers[i])
    /\ decoded = Err(BadResponse)

ZeroAddress == [i \in 1..AddrHexLen |-> "0"]
ZeroSubstituted(addresses) ==
    [i \in 1..Len(addresses) |->
        IF IsSome(addresses[i]) THEN addresses[i] ELSE Some(ZeroAddress)]

\* C14 (as claimed): a valset with None at some positions is encoded, with
\* the zero address at those positions: the message equals the message of
\* the same valset with the zero address given explicitly.
C14_NoneEncodedAsZero ==
    \A i \in 1..Len(enc_calls) :
        LET call == enc_calls[i].call IN
        HasNone(call.valset.eth_addresses) =>
            /\ IsOk(enc_calls[i].message)
            /\ enc_calls[i].message =
                   checkpoint_message(
                       [call EXCEPT !.valset.eth_addresses = ZeroSubstituted(@)])

\* C15: the signed checkpoint holds exactly five fields in this order:
\* the peggy id, the tag "checkpoint", the nonce, the address array, the
\* power array; each array holds one element per validator, in valset
\* order, and nothing else is in the message.
C15_FiveFieldsInOrder ==
    \A i \in 1..Len(enc_calls) :
        IsOk(enc_calls[i].message) =>
            LET call == enc_calls[i].call
                w == enc_calls[i].message.val
                n == Len(call.valset.eth_addresses)
                k == Len(call.valset.powers)
                addr_at == 5
                power_at == addr_at + 1 + n
            IN /\ Len(w) = power_at + 1 + k
               /\ w[1] = FixedStringWord(call.peggy_id)
               /\ w[2] = FixedStringWord("checkpoint")
               /\ w[3] = UintWord(call.valset.nonce)
               /\ w[4] = UintWord(addr_at)
               /\ w[5] = UintWord(power_at)
               /\ w[addr_at + 1] = UintWord(n)
               /\ \A v \in 1..n :
                      w[addr_at + 1 + v] =
                          AddressWord(call.valset.eth_addresses[v].val)
               /\ w[power_at + 1] = UintWord(k)
               /\ \A v \in 1..k :
                      w[power_at + 1 + v] = UintWord(call.valset.powers[v])

\* A checkpoint of two validators with different addresses and powers.
C15_Witness ==
    /\ Len(enc_calls) >= 1
    /\ enc_calls[1].call.valset.eth_addresses = <<Some(AddrB), Some(AddrA)>>
    /\ enc_calls[1].call.valset.powers = <<10, 20>>
    /\ IsOk(enc_calls[1].message)
    /\ Len(enc_calls[1].message.val) = 11

\* The caller gave chain_id, account_number and sequence.
AllSupplied ==
    IsSome(args.chain_id) /\ IsSome(args.account_number) /\ IsSome(args.sequence)

\* C16: an operation given all three of chain_id, account_number and
\* sequence signs a transaction with exactly these three values and
\* issues no account lookup.
C16_SuppliedTxInfoUsed ==
    (pc # "idle" /\ AllSupplied) =>
        /\ lookups = 0
        /\ IsSome(tx) =>
               /\ tx.val.msg.chain_id = args.chain_id.val
               /\ tx.val.msg.account_number = args.account_number.val
               /\ tx.val.msg.sequence = args.sequence.val
               /\ tx.val.signature.over = tx.val.msg

C16_Witness ==
    /\ pc = "done"
    /\ op = "send_valset_request"
    /\ AllSupplied
    /\ IsOk(res)
    /\ tx.val.msg.sequence = 9
    /\ lookups = 0

\* C17: when the account lookup fails, the operation returns the
\* lookup's error, signs nothing and sends nothing.
C17_LookupErrorReturned ==
    (IsSome(lookup_res) /\ IsErr(lookup_res.val)) =>
        /\ pc = "done"
        /\ res = lookup_res.val
        /\ tx = None
        /\ signCount = 0
        /\ sent = <<>>

C17_Witness ==
    /\ pc = "done"
    /\ op = "send_valset_confirm"
    /\ lookup_res = Some(Err(ResponseError))
    /\ res = Err(ResponseError)
    /\ sent = <<>>

\* C18: get_chain_status answers Ok(Syncing) whenever the node reported
\* syncing, Ok(WaitingToStart) when it reported not syncing and no latest
\* block, and Ok(Moving) only when it reported not syncing and a latest
\* block with a last commit: a node that is not ready is never an error.
C18_NotReadyIsAStatus ==
    spc = "done" =>
        /\ syncing = Some(TRUE) => status = Some(Ok(Syncing))
        /\ (syncing = Some(FALSE) /\ block = Some(None)) =>
               status = Some(Ok(WaitingToStart))
        /\ (IsOk(status.val) /\ status.val.val.status = "Moving") =>
               /\ syncing = Some(FALSE)
               /\ IsSome(block) /\ IsSome(block.val)
               /\ IsSome(block.val.val.last_commit)
               /\ block.val.val.last_commit.val.height >= 0 =>
                      status.val.val.block_height =
                          block.val.val.last_commit.val.height

\* A node that is past syncing and before genesis.
C18_Witness ==
    /\ spc = "done"
    /\ syncing = Some(FALSE)
    /\ block = Some(None)
    /\ status = Some(Ok(WaitingToStart))

\* The ids handed out so far are 1, 2, 3, ... in the order handed out.
IdsGapless == \A i \in 1..Len(issued) : issued[i].id = i

\* C19: through clones of one Contact, no two requests get the same id,
\* the ids handed out are exactly 1, 2, 3, ... without a gap, and the
\* counter never decreases, however the calls interleave.
C19_IdsUniqueAndGapless ==
    /\ [](/\ IdsGapless
          /\ \A i, j \in 1..Len(issued) : i # j => issued[i].id # issued[j].id)
    /\ [][id_counter' >= id_counter]_vars

\* Two tasks were inside next_id at once and both got their id.
C19_Witness ==
    /\ Len(issued) = MaxIds
    /\ issued[1].task # issued[2].task
    /\ issued[MaxIds].id = MaxIds

\* The value a lenient field of the body holds cannot be read as a number.
GasUnparseable(v) == v.json # "absent" /\ Unparseable(v)

\* What the lenient adapter is said to make of a field's value.
LenientField(v) ==
    IF v.json = "absent" \/ Unparseable(v) THEN None ELSE Some(WireNumber(v))

\* C21 (as claimed): a transaction send response whose strict fields are
\* sound always decodes, whatever its gas_used and gas_wanted hold: a
\* value that does not parse becomes None, a value that parses becomes
\* Some of the number, and height and txhash are carried over intact.
C21_LenientFieldsNeverFail ==
    (wpc # "wire" /\ wire.kind = "txsend" /\ ~Unparseable(wire.height)) =>
        /\ wpc = "decoded"
        /\ IsOk(decoded)
        /\ decoded.val.gas_used = LenientField(wire.gas_used)
        /\ decoded.val.gas_wanted = LenientField(wire.gas_wanted)
        /\ decoded.val.height = WireNumber(wire.height)
        /\ decoded.val.txhash = wire.txhash.chars

\* The part of C21 the adapter keeps: the same, for gas fields that are
\* strings or absent.
C21_LenientForStrings ==
    (/\ wpc # "wire" /\ wire.kind = "txsend" /\ ~Unparseable(wire.height)
     /\ wire.gas_used.json \in {"string", "absent"}
     /\ wire.gas_wanted.json \in {"string", "absent"}) =>
        /\ wpc = "decoded"
        /\ IsOk(decoded)
        /\ decoded.val.gas_used = LenientField(wire.gas_used)
        /\ decoded.val.gas_wanted = LenientField(wire.gas_wanted)
        /\ decoded.val.height = WireNumber(wire.height)
        /\ decoded.val.txhash = wire.txhash.chars

\* A null gas_used in an otherwise sound body has failed the response.
C21_NullGasFails ==
    /\ wpc = "failed"
    /\ wire.kind = "txsend"
    /\ ~Unparseable(wire.height)
    /\ wire.gas_used = JNull
    /\ GasUnparseable(wire.gas_used)
    /\ wire.gas_wanted = JStr(<<"5">>)
    /\ decoded = Err(BadResponse)

\* The record a node returned decodes, and to an account with / without a
\* base account.
RecordDecodes(r) == \A i \in 1..Len(r) : r[i].field # "invalid"
HasBaseAccount(r) == \E i \in 1..Len(r) : r[i].field = "base_account"

\* get_account_info is over, by a return or by a panic.
AccountCallOver == apc \in {"done", "panicked"}

\* C23 (as claimed): when the node returns a non-empty record that decodes
\* to an account with a base account, get_account_info returns Ok with
\* that base account's data.
C23_ExistingAccountIsOk ==
    (/\ AccountCallOver
     /\ IsSome(acct_reply)
     /\ IsSome(acct_reply.val.account)
     /\ acct_reply.val.account.val # <<>>
     /\ RecordDecodes(acct_reply.val.account.val)
     /\ HasBaseAccount(acct_reply.val.account.val)) =>
        /\ apc = "done"
        /\ IsSome(acct_result)
        /\ IsOk(acct_result.val)
        /\ acct_result.val.val =
               IntoBaseAccount(LastBaseAccount(acct_reply.val.account.val).val)

\* The call has panicked on the record of an existing account.
C23_ExistingAccountPanics ==
    /\ apc = "panicked"
    /\ acct_reply = Some([account |-> Some(<<BaseAccountField(2)>>)])
    /\ acct_result = None

\* C22 (as claimed): when the node returns no account record, or a record
\* that decodes to an account without a base account, get_account_info
\* returns NoToken, and it has asked the node once.
C22_UnknownAccountIsNoToken ==
    (/\ AccountCallOver
     /\ IsSome(acct_reply)
     /\ \/ ~IsSome(acct_reply.val.account)
        \/ /\ RecordDecodes(acct_reply.val.account.val)
           /\ ~HasBaseAccount(acct_reply.val.account.val)) =>
        /\ apc = "done"
        /\ acct_result = Some(Err(NoToken))
        /\ acct_queries = 1

\* The part of C22 that holds: no record, or an empty record.
C22_NoRecordIsNoToken ==
    (/\ AccountCallOver
     /\ IsSome(acct_reply)
     /\ \/ ~IsSome(acct_reply.val.account)
        \/ acct_reply.val.account.val = <<>>) =>
        /\ apc = "done"
        /\ acct_result = Some(Err(NoToken))
        /\ acct_queries = 1

\* The call has panicked on a record without a base account.
C22_RecordWithoutBasePanics ==
    /\ apc = "panicked"
    /\ acct_reply = Some([account |-> Some(<<NameField>>)])
    /\ acct_queries = 1

\* C24: the first send attempt of a submission gets the full timeout T;
\* each later attempt gets T minus the time elapsed since start, at a
\* clock reading taken between the previous attempt and this one; so the
\* timeouts of successive attempts never increase.
C24_TimeoutsShrinkFromStart ==
    /\ Len(sent) >= 1 => sent[1].timeout = timeout
    /\ \A i \in 2..Len(sent) :
           /\ \E t \in sent[i - 1].at..sent[i].at :
                  sent[i].timeout = timeout - (t - start)
           /\ sent[i].timeout <= sent[i - 1].timeout
    /\ pc = "send" /\ Len(sent) >= 1 =>
           \E t \in Cur.at..now : time_left = timeout - (t - start)

\* Three attempts of one submission, each with less time than the last.
C24_Witness ==
    /\ Len(sent) = 3
    /\ timeout = 2
    /\ sent[1].timeout = 2
    /\ sent[2].timeout = 1
    /\ sent[3].timeout = 0

\* retry_on_block stopped short of an attempt only by the bound on the
\* attempts followed.
AttemptsCapped == pc = "send" /\ Len(sent) = MaxAttempts

\* C25 (as claimed): with every request returning and the clock
\* advancing, retry_on_block eventually returns to its caller.
C25_EverySubmissionReturns == <>(pc = "done" \/ AttemptsCapped)

\* What holds in its place: the function returns or panics.
C25_ReturnsOrPanics == <>(pc \in {"done", "panicked"} \/ AttemptsCapped)

\* The function has panicked after its first attempt.
C25_Panicked ==
    /\ pc = "panicked"
    /\ op = "retry_on_block"
    /\ Len(sent) = 1
    /\ outcomes = <<Err(Disconnected)>>
    /\ now - start > timeout

\* C26: a transaction that is not in Block mode is sent once, with the
\* caller's full timeout, and the outcome of that attempt is returned
\* as it is, a lost connection included; in every mode the function has
\* made at least one attempt when it is over.
C26_OtherModesSendOnce ==
    /\ tx.val.mode # "Block" =>
           /\ Len(sent) <= 1
           /\ pc \in {"retry", "await_once", "done"}
           /\ Len(sent) = 1 =>
                  sent[1].timeout = timeout /\ sent[1].tx = tx.val
           /\ pc = "done" =>
                  Len(sent) = 1 /\ outcomes = <<res>>
    /\ pc \in {"done", "panicked"} => Len(sent) >= 1

\* A Sync transaction whose single attempt lost the connection is back
\* with that error, time to spare.
C26_Witness ==
    /\ pc = "done"
    /\ op = "retry_on_block"
    /\ tx.val.mode = "Sync"
    /\ timeout = 2
    /\ now = 0
    /\ Len(sent) = 1
    /\ sent[1].timeout = 2
    /\ res = Err(Disconnected)

\* C27: in every valset confirmation submitted, the nonce of the
\* ValsetConfirmMsg and the nonce encoded in the checkpoint the eth
\* signature is over both equal the nonce of the caller's valset.
C27_ConfirmNonceIsCheckpointNonce ==
    op = "send_valset_confirm" =>
        \A i \in 1..Len(sent) :
            LET msg == sent[i].tx.msg.msgs[1] IN
            /\ Len(sent[i].tx.msg.msgs) = 1
            /\ msg.type = "ValsetConfirmMsg"
            /\ msg.nonce = args.valset.nonce
            /\ IsSome(msg.eth_signature)
            /\ msg.eth_signature.val.over[3] = UintWord(args.valset.nonce)
            /\ msg.eth_signature.val.over[3].num = msg.nonce

\* A confirmation of the valset with nonce 2 has been accepted.
C27_Witness ==
    /\ op = "send_valset_confirm"
    /\ pc = "done"
    /\ IsOk(res)
    /\ args.valset.nonce = 2
    /\ args.valset.eth_addresses = <<Some(AddrA)>>
    /\ sent[1].tx.msg.msgs[1].nonce = 2

\* The caller's valset has all its addresses set and not as many powers
\* as addresses.
MismatchedValset ==
    /\ op = "send_valset_confirm"
    /\ ~HasNone(args.valset.eth_addresses)
    /\ Len(args.valset.powers) # Len(args.valset.eth_addresses)

\* The account lookup of the operation failed.
LookupFailed == IsSome(lookup_res) /\ IsErr(lookup_res.val)

\* C28: a valset whose powers and eth_addresses differ in length and
\* whose addresses are all set is not refused: once its tx fields are
\* resolved it is encoded as it is, signed once and submitted, and the
\* operation never ends in a precondition error.
C28_MismatchedLengthsSubmitted ==
    (MismatchedValset /\ ~LookupFailed) =>
        /\ pc = "done" => Len(sent) >= 1 /\ res = outcomes[Len(outcomes)]
        /\ pc \notin {"idle", "resolve", "build"} =>
               /\ signCount = 1
               /\ IsSome(tx)
               /\ tx.val.msg.msgs[1].eth_signature.val.over =
                      encode_tokens(PeggyId, args.valset.nonce,
                          [i \in 1..Len(args.valset.eth_addresses) |->
                              args.valset.eth_addresses[i].val],
                          args.valset.powers)
        /\ \A i \in 1..Len(sent) : sent[i].tx = tx.val

\* A valset with one power and no address has been confirmed on chain.
C28_Witness ==
    /\ MismatchedValset
    /\ args.valset.powers = <<10>>
    /\ args.valset.eth_addresses = <<>>
    /\ pc = "done"
    /\ Len(sent) = 1
    /\ IsOk(res)

\* Neither operation of the pair was given a sequence.
NoSequenceGiven == \A t \in PairTasks : ~IsSome(pair_args[t].sequence)

\* C29: nothing makes one operation on an account wait for another: an
\* operation about to resolve its tx fields can always do so, whatever
\* the other is doing, and an operation not given a sequence signs and
\* submits with the sequence its own lookup returned.
C29_NoAccountExclusion ==
    /\ \A t \in PairTasks :
           pair_pc[t] = "resolve" =>
               ENABLED (\E ok \in BOOLEAN : PairResolve(t, ok))
    /\ \A t \in PairTasks :
           (IsSome(pair_tx[t]) /\ ~IsSome(pair_args[t].sequence)) =>
               pair_tx[t].val.msg.sequence = pair_seen[t].val.sequence
    /\ \A i \in 1..Len(pair_sent) :
           pair_sent[i].tx = pair_tx[pair_sent[i].task].val

\* The interleaving of the claim: both operations, neither given a
\* sequence, looked up the same on-chain sequence, and both have signed
\* and submitted a transaction with it.
C29_Witness ==
    /\ NoSequenceGiven
    /\ pair_seen[1] = pair_seen[2]
    /\ IsSome(pair_seen[1])
    /\ Len(pair_sent) = 2
    /\ pair_sent[1].task # pair_sent[2].task
    /\ pair_sent[1].tx.msg.sequence = OnChain.sequence
    /\ pair_sent[2].tx.msg.sequence = OnChain.sequence
    /\ pair_sent[1].tx.signature.over.sequence =
           pair_sent[2].tx.signature.over.sequence

====
